---- MODULE Spec2Model ----
(***************************************************************************)
(* The isolation-proof HTTP gateway of isolation_proof/api.py: bearer      *)
(* authentication, the corpus routes, the aggregate route and the submit   *)
(* route POST /v1/agents/{agent_id}/entries, over a filesystem of the      *)
(* corpus directory, the agents directory and the symlinks found in it.    *)
(* SandboxFS, CoreDataset and Aggregator are imported by api.py from       *)
(* modules that are not part of the sources at hand; they are modelled     *)
(* from the design document (sections 4.1, 4.2 and 4.6).                   *)
(***************************************************************************)
EXTENDS Integers, Sequences, FiniteSets, TLC

VARIABLES
    fs,        \* file path -> [exists, lines]: the regular files on disk
    dirs,      \* the directories that exist
    links,     \* symlink path -> target path (NoLink where there is none)
    pc,        \* "idle" | "sent": position of the single-request view
    req,       \* the request being answered (NoReq when idle)
    resp,      \* the response written for req (NoResp when idle)
    inflight,  \* worker thread -> request it holds (threading server)
    served     \* worker thread -> response it has written

vars == <<fs, dirs, links, pc, req, resp, inflight, served>>

----------------------------------------------------------------------------
(* Bounds of the model *)

MaxBatch == 2
NThreads == 2

Threads == 1..NThreads

----------------------------------------------------------------------------
(* Configuration: ApiConfig *)

Agents == {"alpha", "beta"}

\* ISOLATION_PROOF_TOKENS: principal -> secret
tokens == [p \in Agents |-> IF p = "alpha" THEN "ta" ELSE "tb"]

DataDir == <<"data">>
AgentsRoot == DataDir \o <<"agents">>
CoreDir == <<"repo", "isolation_proof", "core">>
CorePath == CoreDir \o <<"core.jsonl">>
CoreHashPath == CoreDir \o <<"core.sha256">>
OutsideDir == <<"tmp", "outside">>
EntriesName == "entries.jsonl"

AgentDir(a) == AgentsRoot \o <<a>>
LogPath(a) == AgentDir(a) \o <<EntriesName>>

----------------------------------------------------------------------------
(* JSON values, serialized lines, digests *)

States == {"S1", "S2", "S3", "S4", "S5", "S6", "S7"}

\* A JSON value as the handler looks at it: k is its type, pk the type of its
\* "projection" member, state the classification carried by the projection.
Json(k, pk, state) == [k |-> k, pk |-> pk, state |-> state]

EntryOf(s) == Json("obj", "map", s)          \* {"projection": {"state": s}}
EntryProjStr == Json("obj", "str", "na")     \* {"projection": "S3"}
EntryProjList == Json("obj", "list", "na")   \* {"projection": ["S3"]}
EntryNoProj == Json("obj", "missing", "na")  \* {"note": 1}
EntryNotObj == Json("num", "na", "na")       \* 7

Rec1 == Json("obj", "missing", "r1")
Rec2 == Json("obj", "missing", "r2")

IsDict(v) == v.k = "obj"
ProjIsDict(v) == v.k = "obj" /\ v.pk = "map"

\* json.dumps(entry, sort_keys=True, separators=(",", ":")): the text of a value
Dumps(v) == [ok |-> TRUE, val |-> v]
GarbageText == [ok |-> FALSE, val |-> Json("num", "na", "na")]
\* json.loads: defined on the texts that parse
Parses(t) == t.ok
Loads(t) == t.val

\* one line of a line-oriented file: its text and whether "\n" terminates it
Line(v) == [text |-> Dumps(v), nl |-> TRUE]
GarbageLine == [text |-> GarbageText, nl |-> TRUE]
PartialLine(v) == [text |-> Dumps(v), nl |-> FALSE]

AbsentFile == [exists |-> FALSE, lines |-> <<>>]
File(ls) == [exists |-> TRUE, lines |-> ls]

\* a whitespace-separated token of the companion hash file
HexToken(content, upper) == [kind |-> "hex", of |-> content, upper |-> upper]
WordToken == [kind |-> "word", of |-> <<>>, upper |-> FALSE]

----------------------------------------------------------------------------
(* Paths and symlinks *)

NoLink == <<>>

\* the places of the agents directory where a symlink may sit
LinkSites == {AgentDir(a) : a \in Agents} \cup {LogPath(a) : a \in Agents}

\* every regular file the model keeps
FilePaths ==
    {LogPath(a) : a \in Agents}
        \cup {CorePath, CoreHashPath, CoreDir \o <<EntriesName>>,
              OutsideDir \o <<EntriesName>>}

Prefixes(p) == {SubSeq(p, 1, i) : i \in 1..Len(p)}
Parent(p) == SubSeq(p, 1, Len(p) - 1)
Name(p) == p[Len(p)]

\* PurePath.relative_to succeeds: p is root or lies below it
IsWithin(p, root) == Len(root) <= Len(p) /\ SubSeq(p, 1, Len(root)) = root

LinkedPrefixes(p) == {i \in 1..Len(p) : SubSeq(p, 1, i) \in LinkSites
                                          /\ links[SubSeq(p, 1, i)] # NoLink}

\* Path.resolve(): follow the first symlink met from the root, then start over
RECURSIVE Resolve(_)
Resolve(p) ==
    IF LinkedPrefixes(p) = {} THEN p
    ELSE LET i == CHOOSE j \in LinkedPrefixes(p) : \A k \in LinkedPrefixes(p) : j <= k
         IN  Resolve(links[SubSeq(p, 1, i)] \o SubSeq(p, i + 1, Len(p)))

\* Path.exists() and Path.is_file(), both following symlinks
FileAt(p) == IF Resolve(p) \in FilePaths THEN fs[Resolve(p)] ELSE AbsentFile
DirExists(p) == Resolve(p) \in dirs

----------------------------------------------------------------------------
(* Requests and responses *)

\* the Authorization header: its scheme word and what follows "Bearer ", a
\* credential with or without blanks around it
NoHeader == [present |-> FALSE, scheme |-> "", tok |-> "", pad |-> FALSE]
Bearer(t) == [present |-> TRUE, scheme |-> "Bearer", tok |-> t, pad |-> FALSE]
BearerPadded(t) == [present |-> TRUE, scheme |-> "Bearer", tok |-> t, pad |-> TRUE]
Headers == {NoHeader, BearerPadded("ta")} \cup {Bearer(t) : t \in {"ta", "tb", "zz"}}
\* presentations sent on GET only: another scheme, a proper prefix of a secret,
\* an unknown credential between blanks, and "Bearer " followed by blanks alone
Basic(t) == [present |-> TRUE, scheme |-> "Basic", tok |-> t, pad |-> FALSE]
ProbeHeaders == {Basic("ta"), Bearer("t"), BearerPadded("zz"), BearerPadded("")}

NoBody == [k |-> "none", val |-> EntryNotObj, items |-> <<>>]
InvalidBody == [k |-> "invalid", val |-> EntryNotObj, items |-> <<>>]
ValueBody(v) == [k |-> "value", val |-> v, items |-> <<>>]
ListBody(items) == [k |-> "list", val |-> EntryNotObj, items |-> items]

SingleValues ==
    {EntryOf(s) : s \in States \cup {"S9"}}
        \cup {EntryProjStr, EntryProjList, EntryNoProj, EntryNotObj}
BatchPool == {EntryOf("S1"), EntryOf("S3"), EntryOf("S9"), EntryProjStr, EntryNotObj}

SeqsUpTo(S, n) == UNION {[1..m -> S] : m \in 0..n}

Payloads ==
    {NoBody, InvalidBody}
        \cup {ValueBody(v) : v \in SingleValues}
        \cup {ListBody(items) : items \in SeqsUpTo(BatchPool, MaxBatch)}

GetRoutes == {"health", "hash", "records", "aggregate", "other"}

Request(method, route, agent, auth, body) ==
    [method |-> method, route |-> route, agent |-> agent, auth |-> auth, body |-> body]
NoReq == Request("", "", "", NoHeader, NoBody)

GetRequests ==
    {Request("GET", r, "", h, NoBody) : r \in GetRoutes, h \in Headers \cup ProbeHeaders}
SubmitRequests ==
    {Request("POST", "submit", a, h, b) : a \in Agents, h \in Headers, b \in Payloads}
PostRequests ==
    SubmitRequests \cup {Request("POST", "other", "", h, NoBody) : h \in Headers}

\* the payload _json_response sends: status, "error", the exception behind the
\* "message", "written" or "count" (n), "matches", and the data returned
Response(status, error, exc, n, matches, data) ==
    [status |-> status, error |-> error, exc |-> exc, n |-> n,
     matches |-> matches, data |-> data]
NoResp == Response(0, "", "", 0, "na", <<>>)
Failure(status, error, exc) == Response(status, error, exc, 0, "na", <<>>)

----------------------------------------------------------------------------
(* Authentication *)

NoToken == ""

\* auth[len(prefix):].strip(): the credential without the blanks around it
Strip(h) == h.tok

\* a reader of the header that takes the credential of any scheme
bearer_token_any_scheme(h) == IF ~h.present THEN NoToken ELSE Strip(h)
\* _bearer_token: None without the header, without the "Bearer " prefix, or
\* when nothing but blanks follows it
bearer_token(h) ==
    IF ~h.present THEN NoToken
    ELSE IF h.scheme # "Bearer" THEN NoToken
    ELSE Strip(h)

authenticate(h) ==
    LET token == bearer_token(h) IN
    IF token = NoToken
    THEN [ok |-> FALSE, principal |-> "", exc |-> "AuthError:missing"]
    ELSE IF \E p \in DOMAIN tokens : tokens[p] = token
    THEN [ok |-> TRUE, principal |-> CHOOSE p \in DOMAIN tokens : tokens[p] = token,
          exc |-> ""]
    ELSE [ok |-> FALSE, principal |-> "", exc |-> "AuthError:invalid"]

\* a handler that lets any principal into any namespace
NamespaceUnchecked(principal, agent_id) == TRUE
\* do_POST: the test of "if principal != agent_id: raise AuthError"
NamespaceAuthorized(principal, agent_id) == principal = agent_id

----------------------------------------------------------------------------
(* Sandbox: the namespace the gateway builds and the write guard *)

SandboxFS(allowed_root, deny_roots) ==
    [allowed_root |-> allowed_root, deny_roots |-> deny_roots]

\* a namespace that denies the corpus directory only
agent_fs_core_only(agent_id) == SandboxFS(AgentsRoot \o <<agent_id>>, {CoreDir})
\* agent_fs: allowed root agents/<id>, deny roots the corpus directory and agents/
agent_fs(agent_id) == SandboxFS(AgentsRoot \o <<agent_id>>, {CoreDir, AgentsRoot})

\* PathGuard.authorize_write (SandboxFS._ensure_write_allowed)
ensure_write_allowed(sfs, path) ==
    LET canonical == Resolve(path) IN
    /\ IsWithin(canonical, sfs.allowed_root)
    /\ \A d \in sfs.deny_roots : ~IsWithin(canonical, d)

OutPath(sfs) == Resolve(sfs.allowed_root \o <<EntriesName>>)

\* a handler that goes on to mkdir and open without asking the guard
WriteUnguarded(sfs, out_path) == TRUE
\* do_POST: the guard call made before mkdir and open
WriteGuard(sfs, out_path) == ensure_write_allowed(sfs, out_path)

----------------------------------------------------------------------------
(* The corpus: expected hash, actual hash, CoreDataset *)

\* compute_file_sha256: lowercase hex digest of the file's bytes
compute_file_sha256(lines) == HexToken(lines, FALSE)

\* read_text().strip().split(): the tokens of the companion file
HashFileTokens == fs[CoreHashPath].lines

\* expected_core_sha256 raises IndexError when split() yields no token
ExpectedRaises == Len(HashFileTokens) = 0
expected_core_sha256 == HashFileTokens[1]

\* CoreDataset.verify_immutable: the stored digest is the digest of the bytes
verify_immutable(expected) == compute_file_sha256(fs[CorePath].lines) = expected

\* CoreDataset.load: one record per line
RECURSIVE load(_)
load(lines) ==
    IF lines = <<>> THEN <<>>
    ELSE <<Loads(Head(lines).text)>> \o load(Tail(lines))

----------------------------------------------------------------------------
(* Aggregator *)

\* agents_root.iterdir() and the exists()/is_file() filter of do_GET
Discovered ==
    IF ~DirExists(AgentsRoot) THEN {}
    ELSE {a \in Agents : /\ (AgentDir(a) \in dirs \/ links[AgentDir(a)] # NoLink)
                         /\ FileAt(LogPath(a)).exists}

\* the orders in which iterdir() may list the discovered directories
Orders(S) == {o \in [1..Cardinality(S) -> S] : \A i, j \in 1..Cardinality(S) :
                                                  o[i] = o[j] => i = j}

\* the fully written, well-formed lines of one log, tagged with its namespace
RECURSIVE ReadLog(_, _)
ReadLog(a, lines) ==
    IF lines = <<>> THEN <<>>
    ELSE LET l == Head(lines) IN
         (IF l.nl /\ Parses(l.text)
          THEN <<[namespace |-> a, entry |-> Loads(l.text)]>>
          ELSE <<>>) \o ReadLog(a, Tail(lines))

RECURSIVE aggregate(_)
aggregate(order) ==
    IF order = <<>> THEN <<>>
    ELSE ReadLog(Head(order), FileAt(LogPath(Head(order))).lines)
            \o aggregate(Tail(order))

----------------------------------------------------------------------------
(* do_GET *)

GetResponse(r, order) ==
    LET a == authenticate(r.auth) IN
    IF ~a.ok THEN Failure(401, "unauthorized", a.exc)
    ELSE IF r.route = "health" THEN Response(200, "", "", 0, "na", <<>>)
    ELSE IF r.route = "hash" THEN
        IF ExpectedRaises THEN Failure(500, "server_error", "IndexError")
        ELSE Response(200, "", "", 0,
                      IF expected_core_sha256 = compute_file_sha256(fs[CorePath].lines)
                      THEN "true" ELSE "false",
                      <<expected_core_sha256, compute_file_sha256(fs[CorePath].lines)>>)
    ELSE IF r.route = "records" THEN
        IF ExpectedRaises THEN Failure(500, "server_error", "IndexError")
        ELSE IF ~verify_immutable(expected_core_sha256)
        THEN Failure(500, "server_error", "IntegrityViolation")
        ELSE Response(200, "", "", 0, "na", load(fs[CorePath].lines))
    ELSE IF r.route = "aggregate" THEN
        Response(200, "", "", Len(aggregate(order)), "na", aggregate(order))
    ELSE Failure(404, "not_found", "")

----------------------------------------------------------------------------
(* do_POST *)

\* text-mode append: what is written after an unterminated last line runs
\* into that line
AppendLine(lines, l) ==
    IF lines # <<>> /\ ~lines[Len(lines)].nl
    THEN [lines EXCEPT ![Len(lines)] = GarbageLine]
    ELSE Append(lines, l)

\* the loop over the entries inside "with out_path.open('a')": each entry is
\* checked and then written; an exception leaves the loop and the file is closed
RECURSIVE WriteEntries(_, _)
WriteEntries(lines, entries) ==
    IF entries = <<>> THEN [lines |-> lines, exc |-> ""]
    ELSE IF ~IsDict(Head(entries)) THEN [lines |-> lines, exc |-> "ValueError"]
    ELSE IF ~ProjIsDict(Head(entries)) THEN [lines |-> lines, exc |-> "ProjectionError"]
    ELSE WriteEntries(AppendLine(lines, Line(Head(entries))), Tail(entries))

Outcome(response, files, directories) ==
    [resp |-> response, fs |-> files, dirs |-> directories]
Rejected(response) == Outcome(response, fs, dirs)

\* the entries of the body: a list as it is, an object as a list of one
EntriesOf(body) == IF body.k = "list" THEN body.items ELSE <<body.val>>

PostOutcome(r) ==
    LET a == authenticate(r.auth) IN
    IF ~a.ok THEN Rejected(Failure(401, "unauthorized", a.exc))
    ELSE IF r.route # "submit" THEN Rejected(Failure(404, "not_found", ""))
    ELSE IF ~NamespaceAuthorized(a.principal, r.agent)
    THEN Rejected(Failure(401, "unauthorized", "AuthError:namespace"))
    ELSE IF r.body.k = "invalid" THEN Rejected(Failure(400, "bad_request", "JSONDecodeError"))
    ELSE IF r.body.k = "none" THEN Rejected(Failure(400, "bad_request", "MissingBody"))
    ELSE IF r.body.k = "value" /\ ~IsDict(r.body.val)
    THEN Rejected(Failure(400, "bad_request", "BodyType"))
    ELSE
        LET sfs == agent_fs(r.agent)
            out_path == OutPath(sfs)
        IN
        IF ~WriteGuard(sfs, out_path)
        THEN Rejected(Failure(400, "bad_request", "SandboxViolation"))
        ELSE
            LET old == IF fs[out_path].exists THEN fs[out_path].lines ELSE <<>>
                w == WriteEntries(old, EntriesOf(r.body))
                files == [fs EXCEPT ![out_path] = File(w.lines)]
                directories == dirs \cup Prefixes(Parent(out_path))
            IN
            IF w.exc # ""
            THEN Outcome(Failure(400, "bad_request", w.exc), files, directories)
            ELSE Outcome(Response(201, "", "", Len(EntriesOf(r.body)), "na", <<>>),
                         files, directories)

----------------------------------------------------------------------------
(* Initial states: the disk the server is started on *)

DirTargets(a) == {AgentDir(b) : b \in Agents \ {a}} \cup {CoreDir, OutsideDir}
FileTargets(a) ==
    {LogPath(b) : b \in Agents \ {a}} \cup {CorePath, OutsideDir \o <<EntriesName>>}

NoLinks == [s \in LinkSites |-> NoLink]

\* no symlink, or one symlink in place of an agent's directory or log file
LinkScenarios ==
    {NoLinks}
        \cup {[NoLinks EXCEPT ![AgentDir(a)] = t] : a \in Agents, t \in DirTargets("alpha")
                \cup DirTargets("beta")}
        \cup {[NoLinks EXCEPT ![LogPath(a)] = t] : a \in Agents, t \in FileTargets("alpha")
                \cup FileTargets("beta")}

LinkScenarioOk(l) ==
    \A a \in Agents : l[AgentDir(a)] # AgentDir(a) /\ l[LogPath(a)] # LogPath(a)

\* what an agent's log may hold at start: nothing, entries written earlier, or
\* entries followed by a damaged line and an unterminated one
InitLogs ==
    {AbsentFile,
     File(<<Line(EntryOf("S3"))>>),
     File(<<Line(EntryOf("S2")), GarbageLine, PartialLine(EntryOf("S4"))>>)}

CorpusOrig == <<Line(Rec1), Line(Rec2)>>
CorpusTampered == Append(CorpusOrig, Line(Rec1))
Corpora == {CorpusOrig, CorpusTampered}

\* the companion file: the digest, the digest followed by a file name, the
\* digest in upper case, or no token at all
Companions ==
    {<<compute_file_sha256(CorpusOrig)>>,
     <<compute_file_sha256(CorpusOrig), WordToken>>,
     <<HexToken(CorpusOrig, TRUE)>>,
     <<>>}

HasOwnDir(l, a) == l[AgentDir(a)] = NoLink
HasOwnLog(l, a) == l[AgentDir(a)] = NoLink /\ l[LogPath(a)] = NoLink

InitDirs(l, logs) ==
    Prefixes(DataDir) \cup Prefixes(CoreDir) \cup Prefixes(OutsideDir)
        \cup (IF \E a \in Agents : logs[a].exists \/ ~HasOwnLog(l, a)
              THEN {AgentsRoot} ELSE {})
        \cup {AgentDir(a) : a \in {b \in Agents : HasOwnDir(l, b)
                                     /\ (logs[b].exists \/ l[LogPath(b)] # NoLink)}}

InitFs(logs, corpus, companion) ==
    [f \in FilePaths |->
        IF f = CorePath THEN File(corpus)
        ELSE IF f = CoreHashPath THEN File(companion)
        ELSE IF \E a \in Agents : f = LogPath(a)
        THEN logs[CHOOSE a \in Agents : f = LogPath(a)]
        ELSE AbsentFile]

InitDisk ==
    \E l \in LinkScenarios, logs \in [Agents -> InitLogs],
       corpus \in Corpora, companion \in Companions :
        /\ LinkScenarioOk(l)
        /\ \A a \in Agents : ~HasOwnLog(l, a) => logs[a] = AbsentFile
        /\ links = l
        /\ fs = InitFs(logs, corpus, companion)
        /\ dirs = InitDirs(l, logs)

NoThreads == [t \in Threads |-> NoReq]
NoServed == [t \in Threads |-> NoResp]

Init ==
    /\ InitDisk
    /\ pc = "idle"
    /\ req = NoReq
    /\ resp = NoResp
    /\ inflight = NoThreads
    /\ served = NoServed

----------------------------------------------------------------------------
(* Actions: one request answered at a time *)

do_GET ==
    /\ pc = "idle"
    /\ \E r \in GetRequests, order \in Orders(Discovered) :
        /\ req' = r
        /\ resp' = GetResponse(r, order)
    /\ pc' = "sent"
    /\ UNCHANGED <<fs, dirs, links, inflight, served>>

\* a handler that opens the log with mode "w" before it asks the guard
do_POST_truncating ==
    /\ pc = "idle"
    /\ \E r \in PostRequests :
        LET o == PostOutcome(r)
            out_path == OutPath(agent_fs(r.agent))
        IN
        /\ req' = r
        /\ resp' = o.resp
        /\ fs' = IF /\ o.resp.exc = "SandboxViolation"
                    /\ out_path \in FilePaths
                    /\ o.fs[out_path].exists
                 THEN [o.fs EXCEPT ![out_path] = File(<<>>)]
                 ELSE o.fs
        /\ dirs' = o.dirs
    /\ pc' = "sent"
    /\ UNCHANGED <<links, inflight, served>>

do_POST ==
    /\ pc = "idle"
    /\ \E r \in PostRequests :
        /\ req' = r
        /\ resp' = PostOutcome(r).resp
        /\ fs' = PostOutcome(r).fs
        /\ dirs' = PostOutcome(r).dirs
    /\ pc' = "sent"
    /\ UNCHANGED <<links, inflight, served>>

\* the handler returns and the connection is closed
Finish ==
    /\ pc = "sent"
    /\ pc' = "idle"
    /\ req' = NoReq
    /\ resp' = NoResp
    /\ UNCHANGED <<fs, dirs, links, inflight, served>>

Next == do_GET \/ do_POST \/ Finish

Spec == Init /\ [][Next]_vars

----------------------------------------------------------------------------
(* ThreadingHTTPServer: every connection is answered on a thread of its own. *)
(* The handler reads the disk and, where it gets that far, writes to it; it  *)
(* holds no lock.  A submit that is turned away before mkdir has read only,  *)
(* so answering it is one step of its thread.                                *)

ValidPool == {EntryOf("S1"), EntryOf("S3")}

\* submits of an agent to its own namespace, every entry well formed
ConcRequests ==
    {Request("POST", "submit", "alpha", Bearer(tokens["alpha"]), ListBody(items)) :
        items \in SeqsUpTo(ValidPool, MaxBatch) \ {<<>>}}

\* a fresh data directory: no agents directory yet, the corpus in place
InitConc ==
    /\ links = NoLinks
    /\ fs = InitFs([a \in Agents |-> AbsentFile], CorpusOrig, <<compute_file_sha256(CorpusOrig)>>)
    /\ dirs = InitDirs(NoLinks, [a \in Agents |-> AbsentFile])
    /\ pc = "idle"
    /\ req = NoReq
    /\ resp = NoResp
    /\ inflight = NoThreads
    /\ served = NoServed

Accept(t) ==
    /\ inflight[t] = NoReq
    /\ \E r \in ConcRequests : inflight' = [inflight EXCEPT ![t] = r]
    /\ UNCHANGED <<fs, dirs, links, pc, req, resp, served>>

Serve(t) ==
    /\ inflight[t] # NoReq
    /\ served[t] = NoResp
    /\ served' = [served EXCEPT ![t] = PostOutcome(inflight[t]).resp]
    /\ fs' = PostOutcome(inflight[t]).fs
    /\ dirs' = PostOutcome(inflight[t]).dirs
    /\ UNCHANGED <<links, pc, req, inflight>>
    /\ resp' = resp

NextConc == \E t \in Threads : Accept(t) \/ Serve(t)

SpecConc == InitConc /\ [][NextConc]_vars

----------------------------------------------------------------------------
(* Vocabulary of the properties *)

IsSubmit(r) == r.method = "POST" /\ r.route = "submit"
Authenticated(r) == authenticate(r.auth).ok
PrincipalOf(r) == authenticate(r.auth).principal
OwnSubmit(r) == IsSubmit(r) /\ Authenticated(r) /\ PrincipalOf(r) = r.agent
CrossSubmit(r) == IsSubmit(r) /\ Authenticated(r) /\ PrincipalOf(r) # r.agent

\* the body is a list, or an object taken as a list of one
HasEntries(r) == r.body.k = "list" \/ (r.body.k = "value" /\ IsDict(r.body.val))
\* an own submit that gets as far as building the sandbox
ReachesWritePath(r) == OwnSubmit(r) /\ HasEntries(r)

ValidEntry(e) == ProjIsDict(e) /\ e.state \in States
AllValid(entries) == \A i \in 1..Len(entries) : ValidEntry(entries[i])
SomeMalformed(entries) == \E i \in 1..Len(entries) : ~ProjIsDict(entries[i])

LinesOf(entries) == [i \in 1..Len(entries) |-> Line(entries[i])]
IsSuffix(tail, lines) ==
    /\ Len(tail) <= Len(lines)
    /\ SubSeq(lines, Len(lines) - Len(tail) + 1, Len(lines)) = tail

WellFormedLine(l) == l.nl /\ Parses(l.text)

\* the roots the design denies: the corpus directory and the directory that
\* holds every namespace
DesignDenyRoots == {CoreDir, AgentsRoot}
Disjoint(sfs) ==
    \A d \in sfs.deny_roots : ~IsWithin(sfs.allowed_root, d) /\ ~IsWithin(d, sfs.allowed_root)

----------------------------------------------------------------------------
(* C1 *)

\* C1: a request authenticated as principal P, accepted or rejected, changes no
\* persisted file other than the log of namespace P; a request that is not
\* authenticated changes none.  The other logs, the corpus file and the
\* companion hash file keep their content.
IsolationC1 ==
    [][pc' = "sent" =>
        \A f \in FilePaths :
            fs'[f] # fs[f] => Authenticated(req') /\ f = LogPath(PrincipalOf(req'))]_vars

\* C1 witness: alpha, whose directory is a symlink to beta's, has submitted a
\* well-formed batch while beta's log holds entries
WitnessC1 ==
    /\ pc = "sent"
    /\ ReachesWritePath(req)
    /\ PrincipalOf(req) = "alpha"
    /\ req.body.k = "list" /\ req.body.items # <<>> /\ AllValid(req.body.items)
    /\ links[AgentDir("alpha")] = AgentDir("beta")
    /\ fs[LogPath("beta")].exists

----------------------------------------------------------------------------
(* C2 *)

\* C2: a submit authenticated as P that targets namespace N # P is answered
\* with the namespace rejection whatever its body is, and it leaves every file
\* and every directory as it was: nothing is created, nothing is appended.
CrossNamespaceC2 ==
    [][(pc' = "sent" /\ CrossSubmit(req')) =>
        /\ resp' = Failure(401, "unauthorized", "AuthError:namespace")
        /\ fs' = fs
        /\ dirs' = dirs]_vars

\* C2 witness: alpha has submitted a well-formed batch to beta, whose directory
\* and log do not exist
WitnessC2 ==
    /\ pc = "sent"
    /\ CrossSubmit(req)
    /\ PrincipalOf(req) = "alpha" /\ req.agent = "beta"
    /\ req.body.k = "list" /\ req.body.items # <<>> /\ AllValid(req.body.items)
    /\ links = NoLinks
    /\ AgentDir("beta") \notin dirs
    /\ ~fs[LogPath("beta")].exists
    /\ resp.status = 401

----------------------------------------------------------------------------
(* C3 *)

----------------------------------------------------------------------------
(* C4 *)

AllServed == \A t \in Threads : inflight[t] # NoReq /\ served[t] # NoResp

RECURSIVE EntriesSubmitted(_)
EntriesSubmitted(n) ==
    IF n = 0 THEN 0 ELSE Len(EntriesOf(inflight[n].body)) + EntriesSubmitted(n - 1)

\* C4: once every thread has answered its submit to namespace alpha, started on
\* a fresh data directory, alpha's log holds only complete, well-formed lines
\* and as many of them as entries were submitted in all.
ConcurrentAppendC4 ==
    AllServed =>
        /\ \A i \in 1..Len(fs[LogPath("alpha")].lines) :
                WellFormedLine(fs[LogPath("alpha")].lines[i])
        /\ Len(fs[LogPath("alpha")].lines) = EntriesSubmitted(NThreads)

----------------------------------------------------------------------------
(* C5 *)

\* C5: a submit of one entry to the principal's own namespace, no symlink
\* involved, is accepted when the entry's projection is a mapping classified
\* into S1..S7 and is rejected as a schema violation when the projection is a
\* string, a list, or a mapping with another state; and every complete line a
\* request adds to a log carries a projection mapping with a state in S1..S7.
SchemaEnforcementC5 ==
    [][(pc' = "sent" /\ OwnSubmit(req') /\ links = NoLinks
            /\ req'.body.k = "value" /\ IsDict(req'.body.val)) =>
        /\ ValidEntry(req'.body.val) => resp'.status = 201
        /\ ~ValidEntry(req'.body.val) /\ req'.body.val.pk # "missing"
                => resp' = Failure(400, "bad_request", "ProjectionError")
        /\ \A f \in FilePaths \ {CoreHashPath} :
            \A i \in 1..Len(fs'[f].lines) :
                i > Len(fs[f].lines) /\ WellFormedLine(fs'[f].lines[i])
                    => ValidEntry(Loads(fs'[f].lines[i].text))]_vars

----------------------------------------------------------------------------
(* C6 *)

HashCheckOf(r) == GetResponse([r EXCEPT !.route = "hash"], <<>>)

\* C6: an authenticated read-corpus fails with IntegrityViolation, serving no
\* record, when the digest of the corpus bytes differs from the expected
\* digest of the companion file; it succeeds with the records of the file when
\* they are equal; and in the same file state the hash check reports
\* matches=false exactly when read-corpus fails.
CorpusIntegrityC6 ==
    (pc = "sent" /\ req.method = "GET" /\ req.route = "records" /\ Authenticated(req)) =>
        /\ (~ExpectedRaises /\ compute_file_sha256(fs[CorePath].lines) # expected_core_sha256)
                => resp = Failure(500, "server_error", "IntegrityViolation")
        /\ (~ExpectedRaises /\ compute_file_sha256(fs[CorePath].lines) = expected_core_sha256)
                => resp.status = 200 /\ resp.data = load(fs[CorePath].lines)
        /\ (HashCheckOf(req).matches = "false") <=> (resp.status # 200)

----------------------------------------------------------------------------
(* C7 *)

----------------------------------------------------------------------------
(* C8 *)

\* C8: a submit of a principal to its own namespace, no symlink involved, with
\* a batch of N >= 1 valid entries succeeds: the guard built for the namespace
\* authorizes the namespace's log path and the response reports written = N.
OwnSubmitC8 ==
    (pc = "sent" /\ ReachesWritePath(req) /\ links = NoLinks
        /\ EntriesOf(req.body) # <<>> /\ AllValid(EntriesOf(req.body))) =>
        /\ WriteGuard(agent_fs(req.agent), LogPath(req.agent))
        /\ resp.status = 201
        /\ resp.n = Len(EntriesOf(req.body))

----------------------------------------------------------------------------
(* C9 *)

\* C9: the namespace the gateway builds for a submit that reaches the write
\* path has an allowed root that is neither equal to, nor above, nor below any
\* of its deny roots.
DisjointRootsC9 ==
    (pc = "sent" /\ ReachesWritePath(req)) => Disjoint(agent_fs(req.agent))

----------------------------------------------------------------------------
(* C10 *)

\* where the target log path of namespace a ends up once symlinks are followed
ResolvedTarget(a) == Resolve(LogPath(a))
EscapesSandbox(a) ==
    \/ ~IsWithin(ResolvedTarget(a), AgentDir(a))
    \/ \E d \in DesignDenyRoots : IsWithin(ResolvedTarget(a), d)

\* C10: a submit that reaches the write path and whose target log path
\* resolves outside the namespace's allowed root, or to or below the corpus
\* directory or the directory of all namespaces, is rejected with a path
\* violation and creates or appends nothing.
ContainmentC10 ==
    [][(pc' = "sent" /\ ReachesWritePath(req') /\ EscapesSandbox(req'.agent)) =>
        /\ resp' = Failure(400, "bad_request", "SandboxViolation")
        /\ fs' = fs
        /\ dirs' = dirs]_vars

\* C10 witness: alpha's directory is a symlink to the corpus directory and
\* alpha's batch of valid entries was turned away with a path violation
WitnessC10 ==
    /\ pc = "sent"
    /\ ReachesWritePath(req)
    /\ req.agent = "alpha"
    /\ links[AgentDir("alpha")] = CoreDir
    /\ EntriesOf(req.body) # <<>> /\ AllValid(EntriesOf(req.body))
    /\ resp.exc = "SandboxViolation"
    /\ ~fs[CoreDir \o <<EntriesName>>].exists

----------------------------------------------------------------------------
(* C11 *)

\* the failure kind a caller sees: the HTTP status and the "error" word
KindOf(response) == <<response.status, response.error>>
\* the same submit presented with another Authorization header
WithHeader(r, h) == Request(r.method, r.route, r.agent, h, r.body)

\* C11: a submit with a valid credential that targets another principal's
\* namespace fails with a kind of its own: its status and error word differ
\* from those of the same submit presented with a missing or invalid credential.
ForbiddenKindC11 ==
    (pc = "sent" /\ CrossSubmit(req)) =>
        /\ resp.status # 201
        /\ \A h \in Headers :
            ~authenticate(h).ok =>
                KindOf(resp) # KindOf(PostOutcome(WithHeader(req, h)).resp)

----------------------------------------------------------------------------
(* C12 *)

\* the namespaces whose entries a response hands to the caller
NamespacesIn(response) ==
    {response.data[i].namespace : i \in 1..Len(response.data)}

\* C12: no operation answers a request authenticated as agent P with an entry
\* of a namespace Q # P: what the aggregated view returns to P holds entries of
\* P's namespace only.
NoCrossReadC12 ==
    (pc = "sent" /\ req.method = "GET" /\ req.route = "aggregate" /\ Authenticated(req)) =>
        NamespacesIn(resp) \subseteq {PrincipalOf(req)}

----------------------------------------------------------------------------
(* C13 *)

\* the header carries the scheme "Bearer" and, once the blanks around it are
\* dropped, the credential c
Presents(h, c) == h.present /\ h.scheme = "Bearer" /\ h.tok = c
\* the same, with no blank around the credential
PresentsExactly(h, c) == Presents(h, c) /\ ~h.pad

\* what every request without a matching credential is answered with
Unauthorized(response) ==
    /\ KindOf(response) = <<401, "unauthorized">>
    /\ response.exc \in {"AuthError:missing", "AuthError:invalid"}
    /\ response.data = <<>>

----------------------------------------------------------------------------
(* C14 *)

\* the bytes of file f are a prefix of the bytes of file g: g holds every line
\* of f, in place, and at most the last line of f, when it had no newline, has
\* grown by what was written after it
IsPrefixOfFile(f, g) ==
    f.exists =>
        /\ g.exists
        /\ Len(f.lines) <= Len(g.lines)
        /\ \A i \in 1..Len(f.lines) :
            \/ g.lines[i] = f.lines[i]
            \/ i = Len(f.lines) /\ ~f.lines[i].nl /\ g.lines[i] = GarbageLine

----------------------------------------------------------------------------
(* C15 *)

IsHealth(r) == r.method = "GET" /\ r.route = "health"

\* C15: the health check has no failure kind: every request for it, with a
\* valid credential, an invalid one or none, is answered with the liveness
\* flag.
HealthAlwaysC15 ==
    (pc = "sent" /\ IsHealth(req)) => resp = Response(200, "", "", 0, "na", <<>>)

----------------------------------------------------------------------------
(* C16 *)

IsHashCheck(r) == r.method = "GET" /\ r.route = "hash"

\* C16: the hash check reports a mismatch instead of failing: whatever the
\* corpus file and the companion hash file hold, an authenticated hash check
\* is answered with success, the expected and the actual digest, and a match
\* flag that is true exactly when the two are equal, letter case included.
HashReportC16 ==
    (pc = "sent" /\ IsHashCheck(req) /\ Authenticated(req)) =>
        /\ resp.status = 200
        /\ Len(resp.data) = 2
        /\ resp.data[2] = compute_file_sha256(fs[CorePath].lines)
        /\ resp.matches = "true" <=> resp.data[1] = resp.data[2]

----------------------------------------------------------------------------
(* C19 *)

\* a submit whose body carries no entry: no body at all, or an empty list
EmptyBatch(r) == IsSubmit(r) /\ (r.body.k = "none" \/ r.body = ListBody(<<>>))

----------------------------------------------------------------------------
(* C20 *)

\* the failures the design names; every other exception is an unexpected one
TypedFailures ==
    {"AuthError:missing", "AuthError:invalid", "AuthError:namespace",
     "ProjectionError", "SandboxViolation", "IntegrityViolation"}

\* C20: a failure that is none of the typed kinds is reported generically:
\* the "message" of a server_error response is not the text of the internal
\* exception.
GenericFailureC20 ==
    (pc = "sent" /\ resp.error = "server_error" /\ resp.exc \notin TypedFailures) =>
        resp.exc = ""

====
